---- MODULE Spec2Model ----
(***************************************************************************)
(* Model of scripts/blog_auto_scan.py: the date normalizer                 *)
(* (parse_post_date), the post extractor (extract_posts / add_post) and    *)
(* the orchestration in main (fetch loop, file write, latest-post scan,    *)
(* report line).                                                           *)
(*                                                                         *)
(* Representation.  A Python str is a sequence of tokens; a token is one   *)
(* character ("2", "-", " ", ",") or one word ("January", "Jan", "None",   *)
(* "A").  An Optional[...] value is <<>> for Python None and <<v>> for a   *)
(* present value v.                                                        *)
(***************************************************************************)
EXTENDS Integers, Sequences, FiniteSets, TLC

VARIABLES
    pc,            \* position of the running function
    pages,         \* main: per input URL (in argv order) what its fetch yields
    requests,      \* main: indices of the URLs fetched so far, in order
    all_posts,     \* main: the accumulated list (line 76)
    file,          \* data/blog_posts.json: <<>> not written, <<content>> written
    stdout,        \* lines printed, each <<count, title>>
    latest_title,  \* main: line 84
    latest_date,   \* main: line 85, Optional date
    k,             \* main: number of records the scan loop has processed
    doc,           \* extract_posts: the parsed element tree
    posts,         \* extract_posts: the returned list
    text,          \* parse_post_date: the argument
    result         \* parse_post_date: Optional returned value, <<>> before return

vars == <<pc, pages, requests, all_posts, file, stdout, latest_title,
          latest_date, k, doc, posts, text, result>>

\* ------------------------------------------------------------------ bounds
MaxPad == 1
MaxNodes == 4
MaxUrls == 2
MaxPosts == 3

\* ------------------------------------------------------------ Optional, str
None == <<>>
Some(v) == <<v>>

Min(S) == CHOOSE x \in S : \A y \in S : x <= y

Whitespace == {" ", "\n"}

RECURSIVE lstrip(_)
lstrip(s) ==
    IF s # <<>> /\ Head(s) \in Whitespace THEN lstrip(Tail(s)) ELSE s

RECURSIVE rstrip(_)
rstrip(s) ==
    IF s # <<>> /\ s[Len(s)] \in Whitespace
    THEN rstrip(SubSeq(s, 1, Len(s) - 1))
    ELSE s

\* Variant of strip that removes the leading whitespace only
strip_leading_only(s) == lstrip(s)

\* str.strip()
strip(s) == rstrip(lstrip(s))

\* ------------------------------------------------- datetime.strptime
DigitChars == <<"0", "1", "2", "3", "4", "5", "6", "7", "8", "9">>
Digits == {DigitChars[i] : i \in 1..10}
DigitVal(c) == (CHOOSE i \in 1..10 : DigitChars[i] = c) - 1

\* %B and %b: the English month names the model's inputs use.
FullMonths ==
    {<<"January", 1>>, <<"February", 2>>, <<"May", 5>>, <<"December", 12>>}
AbbrMonths == {<<"Jan", 1>>, <<"Feb", 2>>, <<"May", 5>>, <<"Dec", 12>>}

IsDigitAt(s, i) == i >= 1 /\ i <= Len(s) /\ s[i] \in Digits

\* The ways a directive of a format can match s from position i: the set of
\* <<length consumed, field, value>>.  The regular expressions are those of
\* _strptime: %Y \d\d\d\d, %m 1[0-2]|0[1-9]|[1-9],
\* %d 3[0-1]|[1-2]\d|0[1-9]|[1-9]| [1-9], a blank of the format \s+.
DirectiveMatches(d, s, i) ==
    CASE d = "%Y" ->
           IF \A j \in i..(i + 3) : IsDigitAt(s, j)
           THEN {<<4, "Y", 1000 * DigitVal(s[i]) + 100 * DigitVal(s[i + 1])
                           + 10 * DigitVal(s[i + 2]) + DigitVal(s[i + 3])>>}
           ELSE {}
      [] d = "%m" ->
           {<<2, "m", 10 * DigitVal(s[i]) + DigitVal(s[i + 1])>> : x \in
               {y \in {1} : /\ IsDigitAt(s, i) /\ IsDigitAt(s, i + 1)
                            /\ \/ s[i] = "1" /\ s[i + 1] \in {"0", "1", "2"}
                               \/ s[i] = "0" /\ s[i + 1] # "0"}}
           \cup
           {<<1, "m", DigitVal(s[i])>> : x \in
               {y \in {1} : IsDigitAt(s, i) /\ s[i] # "0"}}
      [] d = "%d" ->
           {<<2, "d", 10 * DigitVal(s[i]) + DigitVal(s[i + 1])>> : x \in
               {y \in {1} : /\ IsDigitAt(s, i) /\ IsDigitAt(s, i + 1)
                            /\ \/ s[i] = "3" /\ s[i + 1] \in {"0", "1"}
                               \/ s[i] \in {"1", "2"}
                               \/ s[i] = "0" /\ s[i + 1] # "0"}}
           \cup
           {<<1, "d", DigitVal(s[i])>> : x \in
               {y \in {1} : IsDigitAt(s, i) /\ s[i] # "0"}}
           \cup
           {<<2, "d", DigitVal(s[i + 1])>> : x \in
               {y \in {1} : /\ i <= Len(s) /\ s[i] = " "
                            /\ IsDigitAt(s, i + 1) /\ s[i + 1] # "0"}}
      [] d = "%B" ->
           {<<1, "m", p[2]>> : p \in {q \in FullMonths : i <= Len(s) /\ s[i] = q[1]}}
      [] d = "%b" ->
           {<<1, "m", p[2]>> : p \in {q \in AbbrMonths : i <= Len(s) /\ s[i] = q[1]}}
      [] d = " " ->
           {<<n, "", 0>> : n \in
               {m \in 1..(Len(s) + 1 - i) :
                    \A j \in i..(i + m - 1) : s[j] \in Whitespace}}
      [] OTHER ->
           IF i <= Len(s) /\ s[i] = d THEN {<<1, "", 0>>} ELSE {}

\* All the ways the directives fmt[f..] match the whole of s[i..]; each is the
\* fields found, [Y, m, d].  The pattern of strptime is not anchored at the
\* end, and strptime raises "unconverted data remains" when the match stops
\* short: for these five formats that is the same as no match of the whole.
RECURSIVE MatchFrom(_, _, _, _, _)
MatchFrom(fmt, f, s, i, acc) ==
    IF f > Len(fmt)
    THEN IF i = Len(s) + 1 THEN {acc} ELSE {}
    ELSE UNION {MatchFrom(fmt, f + 1, s, i + c[1],
                          IF c[2] = "" THEN acc
                          ELSE [acc EXCEPT ![c[2]] = c[3]])
                : c \in DirectiveMatches(fmt[f], s, i)}

IsLeap(y) == (y % 4 = 0 /\ y % 100 # 0) \/ y % 400 = 0

DaysInMonth(y, m) ==
    IF m = 2 THEN (IF IsLeap(y) THEN 29 ELSE 28)
    ELSE IF m \in {4, 6, 9, 11} THEN 30 ELSE 31

\* datetime.strptime(s, fmt): <<date>> with date = <<year, month, day>>, or
\* <<>> when it raises ValueError (no match, or no such calendar day).
strptime(s, fmt) ==
    LET M == MatchFrom(fmt, 1, s, 1, [Y |-> 0, m |-> 0, d |-> 0])
    IN  IF M = {} THEN None
        ELSE LET r == CHOOSE x \in M : TRUE
             IN  IF r.Y >= 1 /\ r.d <= DaysInMonth(r.Y, r.m)
                 THEN Some(<<r.Y, r.m, r.d>>)
                 ELSE None

\* datetime.__gt__ on naive datetimes at midnight
DateGT(a, b) ==
    \/ a[1] > b[1]
    \/ a[1] = b[1] /\ a[2] > b[2]
    \/ a[1] = b[1] /\ a[2] = b[2] /\ a[3] > b[3]

\* ------------------------------------------------------- parse_post_date
Formats ==
    << <<"%Y", "-", "%m", "-", "%d">>,
       <<"%d", " ", "%B", " ", "%Y">>,
       <<"%B", " ", "%d", ",", " ", "%Y">>,
       <<"%d", " ", "%b", " ", "%Y">>,
       <<"%b", " ", "%d", ",", " ", "%Y">> >>

\* The for loop from the format at index n on.
RECURSIVE TryFormats(_, _)
TryFormats(t, n) ==
    IF n > Len(Formats) THEN None
    ELSE LET r == strptime(strip(t), Formats[n])
         IN  IF r # None THEN r ELSE TryFormats(t, n + 1)

parse_post_date(t) == TryFormats(t, 1)

\* ======================================================================
\* Specification of parse_post_date alone: the argument is drawn from the
\* texts below and the function is applied to it.
\* ======================================================================
Pad(n) == UNION {[1..m -> Whitespace] : m \in 0..n}

YearTexts == {<<"2", "0", "2", "4">>, <<"2", "0", "2", "3">>, <<"0", "0", "0", "0">>}
MonthTexts == {<<"1">>, <<"0", "2">>, <<"1", "2">>, <<"1", "3">>}
DayTexts == {<<"5">>, <<"0", "5">>, <<"2", "9">>, <<"3", "1">>, <<"3", "2">>}
MonthWords == {"January", "Jan", "February", "Feb", "May", "December", "Dec", "Janvier"}

OtherTexts ==
    { <<>>,
      <<"2", " ", "d", "a", "y", "s", " ", "a", "g", "o">>,
      <<"2", "0", "2", "4", "-", "0", "1", "-", "0", "5", "T", "1", "0">>,
      <<"2", "4", "-", "0", "1", "-", "0", "5">>,
      <<"5", " ", " ", "May", " ", "2", "0", "2", "4">>,
      <<"May", " ", "5", " ", "2", "0", "2", "4">>,
      <<"May", " ", " ", "5", ",", " ", "2", "0", "2", "4">>,
      <<"2", "0", "2", "4", "-", "0", "1", "-", " ", "5">> }

DateTexts ==
    {y \o <<"-">> \o m \o <<"-">> \o d :
        y \in YearTexts, m \in MonthTexts, d \in DayTexts}
    \cup {d \o <<" ", w, " ">> \o y :
        y \in YearTexts, w \in MonthWords, d \in DayTexts}
    \cup {<<w, " ">> \o d \o <<",", " ">> \o y :
        y \in YearTexts, w \in MonthWords, d \in DayTexts}
    \cup OtherTexts

MainIdle ==
    /\ pages = <<>>
    /\ requests = <<>>
    /\ all_posts = <<>>
    /\ file = None
    /\ stdout = <<>>
    /\ latest_title = <<"None">>
    /\ latest_date = None
    /\ k = 0

ExtractIdle == doc = <<>> /\ posts = <<>>

ParseIdle == text = <<>> /\ result = None

InitParse ==
    /\ pc = "parse"
    /\ \E l \in Pad(MaxPad), c \in DateTexts, r \in Pad(MaxPad) : text = l \o c \o r
    /\ result = None
    /\ MainIdle
    /\ ExtractIdle

ParseCall ==
    /\ pc = "parse"
    /\ result' = parse_post_date(text)
    /\ pc' = "parsed"
    /\ UNCHANGED <<pages, requests, all_posts, file, stdout, latest_title,
                   latest_date, k, doc, posts, text>>

NextParse == ParseCall

SpecParse == InitParse /\ [][NextParse]_vars

\* ---------------------------------------------------------------- C8
NonBlank(s) == {i \in 1..Len(s) : s[i] \notin Whitespace}

Trimmed(s) ==
    IF NonBlank(s) = {} THEN <<>>
    ELSE SubSeq(s, Min(NonBlank(s)), CHOOSE i \in NonBlank(s) : \A j \in NonBlank(s) : j <= i)

\* The patterns in the order the claim lists them.
ListedPatterns ==
    << <<"%Y", "-", "%m", "-", "%d">>,
       <<"%d", " ", "%B", " ", "%Y">>,
       <<"%B", " ", "%d", ",", " ", "%Y">>,
       <<"%d", " ", "%b", " ", "%Y">>,
       <<"%b", " ", "%d", ",", " ", "%Y">> >>

Matching(s) == {n \in 1..5 : strptime(s, ListedPatterns[n]) # None}

\* C8: parse_post_date returns, for the input with its leading and trailing
\* whitespace removed, the interpretation of the earliest listed pattern that
\* matches, and None exactly when no listed pattern matches; so the whitespace
\* around the input never changes the result.
C8_FirstPatternWins ==
    pc = "parsed" =>
        LET t == Trimmed(text)
        IN  /\ (result = None) <=> (Matching(t) = {})
            /\ Matching(t) # {} => result = strptime(t, ListedPatterns[Min(Matching(t))])

\* A padded input that two patterns match ("5 May 2024": DD Month YYYY and
\* DD Mon YYYY) has been parsed.
C8_Witness ==
    /\ pc = "parsed"
    /\ text # Trimmed(text)
    /\ Cardinality(Matching(Trimmed(text))) >= 2
    /\ result = Some(<<2024, 5, 5>>)

\* An input no pattern matches has been parsed to None.
C8_WitnessNone ==
    /\ pc = "parsed"
    /\ Trimmed(text) # <<>>
    /\ Matching(Trimmed(text)) = {}
    /\ result = None

\* ======================================================================
\* The element tree (BeautifulSoup) and extract_posts
\* ======================================================================
\* A document is the sequence of its elements in document order; an element
\* is [tag, parent, text, datetime, href]: parent is the index of the
\* enclosing element, 0 for the BeautifulSoup object itself; text is the
\* element's own character data; datetime and href are Optional attributes.

Headings == {"h1", "h2", "h3", "h4", "h5", "h6"}

\* n is a proper descendant of scope
RECURSIVE IsInside(_, _, _)
IsInside(d, n, scope) ==
    IF n = 0 THEN FALSE
    ELSE d[n].parent = scope \/ IsInside(d, d[n].parent, scope)

\* Tag.find_all(tags), called on element scope (0: on the soup)
find_all(d, scope, tags) ==
    SelectSeq([i \in 1..Len(d) |-> i],
              LAMBDA i : IsInside(d, i, scope) /\ d[i].tag \in tags)

\* Tag.find(tags): the first such element, 0 for Python None
find(d, scope, tags) ==
    LET found == find_all(d, scope, tags)
    IN  IF found = <<>> THEN 0 ELSE Head(found)

\* Tag.get_text(strip=True): the stripped strings of n and of its
\* descendants, in document order, joined
RECURSIVE JoinText(_, _, _)
JoinText(d, n, i) ==
    IF i > Len(d) THEN <<>>
    ELSE (IF i = n \/ IsInside(d, i, n) THEN strip(d[i].text) ELSE <<>>)
         \o JoinText(d, n, i + 1)

get_text(d, n) == JoinText(d, n, 1)

\* The element add_post searches for the time element (line 49): the tag
\* itself when it is an article, else its parent.
time_scope(d, title_tag) ==
    IF d[title_tag].tag = "article" THEN title_tag ELSE d[title_tag].parent

\* add_post(title_tag): what it appends to posts, <<>> or one record
add_post(d, title_tag) ==
    IF title_tag = 0 THEN <<>>
    ELSE LET link_tag == find(d, title_tag, {"a"})
             title == IF link_tag # 0 THEN get_text(d, link_tag)
                      ELSE get_text(d, title_tag)
             permalink == IF link_tag # 0 /\ d[link_tag].href # None
                          THEN d[link_tag].href ELSE None
             parent == time_scope(d, title_tag)
             time_tag == find(d, parent, {"time"})
             date_text == IF time_tag # 0 /\ d[time_tag].datetime # None
                          THEN d[time_tag].datetime
                          ELSE IF time_tag # 0 THEN Some(get_text(d, time_tag))
                          ELSE None
         IN  << [title |-> title, date |-> date_text, url |-> permalink] >>

RECURSIVE AddPosts(_, _)
AddPosts(d, tags) ==
    IF tags = <<>> THEN <<>>
    ELSE add_post(d, Head(tags)) \o AddPosts(d, Tail(tags))

\* Variant of the test of line 64: fall back only when there is no article
no_articles(found, articles) == articles = <<>>

\* The test of line 64 that starts the scan of the h2 elements
fallback_needed(found, articles) == found = <<>>

\* The body of extract_posts after the page is parsed (lines 40-68)
extract_posts(d) ==
    LET articles == find_all(d, 0, {"article"})
        heading == [j \in 1..Len(articles) |-> find(d, articles[j], Headings)]
        found == AddPosts(d, heading)
    IN  IF fallback_needed(found, articles)
        THEN AddPosts(d, find_all(d, 0, {"h2"}))
        ELSE found

\* ----------------------------------------------------------------------
\* Specification of extract_posts alone, on the documents of at most
\* MaxNodes elements of the kinds below.
\* ----------------------------------------------------------------------
IsoDate == <<"2", "0", "2", "4", "-", "0", "1", "-", "0", "5">>
LongDate == <<" ", "5", " ", "May", " ", "2", "0", "2", "4", "\n">>

\* The element kinds; at position n a heading's text is "H" n and a link's
\* "L" n, so that a record shows the element it was made from.
Element(kind, n, parent) ==
    [ tag |-> IF kind \in {"time-attr", "time-text"} THEN "time" ELSE kind,
      parent |-> parent,
      text |-> IF kind \in Headings THEN <<"H", DigitChars[n + 1]>>
               ELSE IF kind = "a" THEN <<"L", DigitChars[n + 1]>>
               ELSE IF kind = "time-text" THEN LongDate
               ELSE <<>>,
      datetime |-> IF kind = "time-attr" THEN Some(IsoDate) ELSE None,
      href |-> IF kind = "a" THEN Some(<<"/", "p", DigitChars[n + 1]>>) ELSE None ]

ElementKinds == {"article", "div", "h2", "h3", "a", "time-attr", "time-text"}
Containers == {"article", "div", "h2", "h3"}

\* Where the next element of document order can be put: at top level, or in
\* the last element or one of its ancestors, when that is a container.
OpenParents(d) ==
    {0} \cup {j \in 1..Len(d) :
                /\ j = Len(d) \/ IsInside(d, Len(d), j)
                /\ d[j].tag \in Containers}

InitExtract ==
    /\ pc = "soup"
    /\ doc = <<>>
    /\ posts = <<>>
    /\ MainIdle
    /\ ParseIdle

\* BeautifulSoup(response.text, "html.parser") (line 38) reads one more
\* element of the markup, in document order.
AppendElement ==
    /\ pc = "soup"
    /\ Len(doc) < MaxNodes
    /\ \E kd \in ElementKinds, p \in OpenParents(doc) :
          doc' = Append(doc, Element(kd, Len(doc) + 1, p))
    /\ UNCHANGED <<pc, pages, requests, all_posts, file, stdout, latest_title,
                   latest_date, k, posts, text, result>>

\* Lines 40-68 on the document read
ExtractCall ==
    /\ pc = "soup"
    /\ posts' = extract_posts(doc)
    /\ pc' = "extracted"
    /\ UNCHANGED <<pages, requests, all_posts, file, stdout, latest_title,
                   latest_date, k, doc, text, result>>

NextExtract == AppendElement \/ ExtractCall

SpecExtract == InitExtract /\ [][NextExtract]_vars

\* ------------------------------------------------------------ C4, C5
\* The elements of S in document order
RECURSIVE InOrder(_)
InOrder(S) ==
    IF S = {} THEN <<>> ELSE <<Min(S)>> \o InOrder(S \ {Min(S)})

Inside(d, scope, tags) ==
    {i \in 1..Len(d) : IsInside(d, i, scope) /\ d[i].tag \in tags}

ArticlesWithHeading(d) ==
    {a \in Inside(d, 0, {"article"}) : Inside(d, a, Headings) # {}}

\* The date of the first time element within scope: its datetime attribute
\* if it has one, else its trimmed text; None without a time element.
DateWithin(d, scope) ==
    LET times == Inside(d, scope, {"time"})
    IN  IF times = {} THEN None
        ELSE LET t == d[Min(times)]
             IN  IF t.datetime # None THEN t.datetime ELSE Some(Trimmed(t.text))

\* C4: in Tier 1 the date of a record is that of the time element found
\* anywhere within the article of its heading (None only when the article has
\* no time element); in Tier 2 it is that of the time element found within
\* the parent of the h2.
C4_DateFromArticle ==
    pc = "extracted" =>
        LET arts == InOrder(ArticlesWithHeading(doc))
            h2s == InOrder(Inside(doc, 0, {"h2"}))
        IN  IF arts # <<>>
            THEN /\ Len(posts) = Len(arts)
                 /\ \A j \in 1..Len(arts) :
                        posts[j].date = DateWithin(doc, arts[j])
            ELSE /\ Len(posts) = Len(h2s)
                 /\ \A j \in 1..Len(h2s) :
                        posts[j].date = DateWithin(doc, doc[h2s[j]].parent)

C5_WitnessTier2 ==
    /\ pc = "extracted"
    /\ Inside(doc, 0, {"article"}) # {}
    /\ ArticlesWithHeading(doc) = {}
    /\ Len(posts) = 2

\* ======================================================================
\* main
\* ======================================================================
\* Variant of raise_for_status that raises for a 5xx status only
raise_for_server_error(status) == status >= 500 /\ status < 600

\* Response.raise_for_status(): raises HTTPError for a 4xx or 5xx status
raise_for_status(status) == status >= 400 /\ status < 600

\* Variant of extend that puts the new items first
prepend(list, items) == items \o list

\* list.extend
extend(list, items) == list \o items

\* Variant of line 87 that tests "is None": no extracted title is None
skip_none_only(post) == FALSE

\* The condition of line 87 that skips a record
skip_post(post) == post.title = <<>>

\* Variant of line 90 with >= in place of >
is_later_or_equal(parsed, latest) == ~DateGT(latest, parsed)

\* parsed > latest_date of line 90, latest_date being set
is_later(parsed, latest) == DateGT(parsed, latest)

\* Variant of line 93 without the test of latest_date
placeholder_unset(title, latest) == title = <<"None">>

\* The elif condition of line 93
adopt_placeholder(title, latest) == latest = None /\ title = <<"None">>

\* One iteration of the loop of lines 86-94 on post, from the tracked
\* <<latest_title, latest_date>>: the pair after the iteration.
scan_post(post, title, latest) ==
    IF skip_post(post) THEN <<title, latest>>
    ELSE LET parsed == IF post.date # None /\ post.date[1] # <<>>
                       THEN parse_post_date(post.date[1])
                       ELSE None
         IN  IF parsed # None /\ (latest = None \/ is_later(parsed[1], latest[1]))
             THEN <<post.title, parsed>>
             ELSE IF adopt_placeholder(title, latest)
                  THEN <<post.title, latest>>
                  ELSE <<title, latest>>

\* Variant of line 96 that counts the records the scan did not skip
report_titled(all, title) ==
    <<Cardinality({i \in 1..Len(all) : all[i].title # <<>>}), title>>

\* The line printed at line 96: <<count, title>>
report(all, title) == <<Len(all), title>>

\* extract_posts(url) raises: requests.get fails, or the status is an error
FetchRaise ==
    /\ pc = "fetch"
    /\ Len(requests) < Len(pages)
    /\ LET i == Len(requests) + 1
       IN  /\ requests' = Append(requests, i)
           /\ pages[i].transport_error \/ raise_for_status(pages[i].status)
    /\ pc' = "failed"
    /\ UNCHANGED <<pages, all_posts, file, stdout, latest_title, latest_date,
                   k, doc, posts, text, result>>

\* One iteration of the loop of lines 77-78 in which extract_posts returns
FetchExtend ==
    /\ pc = "fetch"
    /\ Len(requests) < Len(pages)
    /\ LET i == Len(requests) + 1
       IN  /\ requests' = Append(requests, i)
           /\ ~pages[i].transport_error
           /\ ~raise_for_status(pages[i].status)
           /\ all_posts' = extend(all_posts, extract_posts(pages[i].doc))
           /\ pc' = IF i = Len(pages) THEN "write" ELSE "fetch"
    /\ UNCHANGED <<pages, file, stdout, latest_title, latest_date, k, doc,
                   posts, text, result>>

\* Lines 80-85: json.dump of all_posts, then the scan's initial values
WriteFile ==
    /\ pc = "write"
    /\ file' = Some(all_posts)
    /\ latest_title' = <<"None">>
    /\ latest_date' = None
    /\ k' = 0
    /\ pc' = "scan"
    /\ UNCHANGED <<pages, requests, all_posts, stdout, doc, posts, text, result>>

\* One iteration of the loop of lines 86-94
ScanStep ==
    /\ pc = "scan"
    /\ k < Len(all_posts)
    /\ LET next == scan_post(all_posts[k + 1], latest_title, latest_date)
       IN  /\ latest_title' = next[1]
           /\ latest_date' = next[2]
    /\ k' = k + 1
    /\ UNCHANGED <<pc, pages, requests, all_posts, file, stdout, doc, posts,
                   text, result>>

\* Line 96, after the loop
PrintReport ==
    /\ pc = "scan"
    /\ k = Len(all_posts)
    /\ stdout' = Append(stdout, report(all_posts, latest_title))
    /\ pc' = "done"
    /\ UNCHANGED <<pages, requests, all_posts, file, latest_title,
                   latest_date, k, doc, posts, text, result>>

\* ---------------------------------------------------------------- inputs
El(tag, parent, txt, datetime, href) ==
    [tag |-> tag, parent |-> parent, text |-> txt, datetime |-> datetime,
     href |-> href]

\* <article><h2><a href="/a">A</a></h2><time datetime="2024-01-05"></time>
\* </article><article><h3></h3><time>2 days ago</time></article>
PageArticles ==
    << El("article", 0, <<>>, None, None),
       El("h2", 1, <<>>, None, None),
       El("a", 2, <<"A">>, None, Some(<<"/", "a">>)),
       El("time", 1, <<>>, Some(IsoDate), None),
       El("article", 0, <<>>, None, None),
       El("h3", 5, <<>>, None, None),
       El("time", 5, <<"2", " ", "d", "a", "y", "s", " ", "a", "g", "o">>,
          None, None) >>

\* <h2>B</h2><h2>A</h2>
PageHeadings ==
    << El("h2", 0, <<"B">>, None, None), El("h2", 0, <<"A">>, None, None) >>

\* <p></p>
PageEmpty == << El("p", 0, <<>>, None, None) >>

\* <div><h2>B</h2><time> 5 January 2024 </time></div>
PageDated ==
    << El("div", 0, <<>>, None, None),
       El("h2", 1, <<"B">>, None, None),
       El("time", 1, <<" ", "5", " ", "January", " ", "2", "0", "2", "4", " ">>,
          None, None) >>

SamplePages == {PageArticles, PageHeadings, PageEmpty, PageDated}

\* What the fetch of a URL can yield: a transport error (DNS, timeout), or
\* a response with a status and a body.
Outcomes ==
    {[transport_error |-> TRUE, status |-> 0, doc |-> <<>>]}
    \cup {[transport_error |-> FALSE, status |-> st, doc |-> d] :
            st \in {200, 404, 503}, d \in SamplePages}

Init ==
    /\ pc = "fetch"
    /\ pages \in UNION {[1..n -> Outcomes] : n \in 1..MaxUrls}
    /\ requests = <<>>
    /\ all_posts = <<>>
    /\ file = None
    /\ stdout = <<>>
    /\ latest_title = <<"None">>
    /\ latest_date = None
    /\ k = 0
    /\ ExtractIdle
    /\ ParseIdle

Next == FetchRaise \/ FetchExtend \/ WriteFile \/ ScanStep \/ PrintReport

Spec == Init /\ [][Next]_vars

\* ----------------------------------------------------------------------
\* Specification of the latest-post scan alone (lines 84-96): the list is
\* drawn from the records below and has been written to the file.
\* ----------------------------------------------------------------------
SampleTitles == {<<>>, <<"None">>, <<"A">>, <<"B">>}

SampleDates ==
    { None,
      Some(<<"2", " ", "d", "a", "y", "s", " ", "a", "g", "o">>),
      Some(<<"2", "0", "2", "3", "-", "1", "2", "-", "0", "1">>),
      Some(IsoDate),
      Some(<<"5", " ", "January", " ", "2", "0", "2", "4">>) }

SampleRecords ==
    {[title |-> t, date |-> d, url |-> None] : t \in SampleTitles, d \in SampleDates}

InitSelect ==
    /\ pc = "scan"
    /\ all_posts \in UNION {[1..n -> SampleRecords] : n \in 0..MaxPosts}
    /\ file = Some(all_posts)
    /\ pages = <<>>
    /\ requests = <<>>
    /\ stdout = <<>>
    /\ latest_title = <<"None">>
    /\ latest_date = None
    /\ k = 0
    /\ ExtractIdle
    /\ ParseIdle

NextSelect == ScanStep \/ PrintReport

SpecSelect == InitSelect /\ [][NextSelect]_vars

\* ======================================================================
\* Properties of main
\* ======================================================================
\* The normalized date of record i, None when it has no date or none parses
Normalized(i) ==
    IF all_posts[i].date = None THEN None ELSE parse_post_date(all_posts[i].date[1])

Titled(n) == {i \in 1..n : all_posts[i].title # <<>>}

\* The normalized dates of all the records
Dates == [i \in 1..Len(all_posts) |-> Normalized(i)]

\* The titled records among the first n whose date, in dates, is set
DatedIn(dates, n) == {i \in Titled(n) : dates[i] # None}

Dated(n) == DatedIn(Dates, n)

\* The fetch of a URL fails: transport error, or a status that is no success
FetchFails(o) == o.transport_error \/ o.status \notin 200..299

FailingUrls == {i \in 1..Len(pages) : FetchFails(pages[i])}

\* The records of the first n pages, page by page
RECURSIVE RecordsOf(_)
RecordsOf(n) ==
    IF n = 0 THEN <<>> ELSE RecordsOf(n - 1) \o extract_posts(pages[n].doc)

C7_FileIsConcatenation ==
    /\ requests = [i \in 1..Len(requests) |-> i]
    /\ pc # "failed" => all_posts = RecordsOf(Len(requests))
    /\ file # None => file = Some(RecordsOf(Len(pages)))

\* Two pages were written: the file holds a record twice, and a record
\* without title whose date does not parse.
C7_Witness ==
    /\ pc = "done"
    /\ Len(pages) = 2
    /\ LET w == file[1]
       IN  /\ Len(w) = 4
           /\ \E i, j \in 1..Len(w) : i < j /\ w[i] = w[j]
           /\ \E i \in 1..Len(w) :
                /\ w[i].title = <<>>
                /\ w[i].date # None
                /\ parse_post_date(w[i].date[1]) = None

\* C9: the count of the report is the number of records of all the pages,
\* title or not, date or not; with no record it is 0 and the title printed is
\* None.
C9_CountIsTotal ==
    stdout # <<>> =>
        /\ Len(stdout) = 1
        /\ stdout[1][1] = Len(RecordsOf(Len(pages)))
        /\ stdout[1][1] = Len(file[1])
        /\ stdout[1][1] = 0 => stdout[1][2] = <<"None">>

\* The report counts a record without title.
C9_Witness ==
    /\ pc = "done"
    /\ \E i \in 1..Len(all_posts) : all_posts[i].title = <<>>
    /\ \E i \in 1..Len(all_posts) : all_posts[i].date = None
    /\ stdout[1][1] = Len(all_posts)
    /\ stdout[1][1] > Cardinality(Titled(Len(all_posts)))

\* The report of a run that found no record.
C9_WitnessEmpty ==
    /\ pc = "done"
    /\ Len(pages) = 2
    /\ stdout = << <<0, <<"None">> >> >>

\* ======================================================================
\* Properties of the latest-post scan
\* ======================================================================
\* The earliest of the records of S whose date, in dates, no record of S
\* exceeds
EarliestLatest(dates, S) ==
    Min({i \in S : \A j \in S : ~DateGT(dates[j][1], dates[i][1])})

\* C2: when some titled record has a date that normalizes, the title
\* reported is that of the earliest record whose normalized date is the
\* maximum over those records.
C2_LatestIsEarliestMaximum ==
    stdout # <<>> =>
        LET dates == Dates
            dated == DatedIn(dates, Len(all_posts))
        IN  dated # {} => stdout[1][2] = all_posts[EarliestLatest(dates, dated)].title

\* Two records of the same latest day with different titles, and an undated
\* record after them: the first one's title is reported.
C2_Witness ==
    /\ pc = "done"
    /\ Len(all_posts) = 3
    /\ Dated(3) = {1, 2}
    /\ Normalized(1) = Normalized(2)
    /\ all_posts[1].date # all_posts[2].date
    /\ all_posts[1].title # all_posts[2].title
    /\ all_posts[3].title \notin {<<>>, all_posts[1].title}
    /\ stdout[1][2] = all_posts[1].title

\* C3: when no titled record has a date that normalizes, the title reported
\* is that of the first record that has a title.
C3_FirstTitleWins ==
    (stdout # <<>> /\ Dated(Len(all_posts)) = {} /\ Titled(Len(all_posts)) # {}) =>
        stdout[1][2] = all_posts[Min(Titled(Len(all_posts)))].title

\* C6: an iteration on a record without title leaves the tracked date and
\* the tracked title as they were, and the tracked title is never the title
\* of such a record.
C6_UntitledSkipped ==
    [][ /\ (pc = "scan" /\ k < Len(all_posts) /\ all_posts[k + 1].title = <<>>)
            => (latest_title' = latest_title /\ latest_date' = latest_date)
        /\ latest_title' # <<>> ]_vars

\* A record without title carries the latest date of all and the scan ended
\* with another record's date.
C6_Witness ==
    /\ pc = "done"
    /\ Dated(Len(all_posts)) # {}
    /\ \E i \in 1..Len(all_posts) :
        /\ all_posts[i].title = <<>>
        /\ Normalized(i) # None
        /\ \A j \in Dated(Len(all_posts)) : DateGT(Normalized(i)[1], Normalized(j)[1])
        /\ DateGT(Normalized(i)[1], latest_date[1])

\* After k records the tracked date is the maximum normalized date of the
\* titled records among them, unset when there is none.
TrackedDateIsMaximum ==
    LET dates == Dates
        dated == DatedIn(dates, k)
    IN  IF dated = {} THEN latest_date = None
        ELSE latest_date = dates[EarliestLatest(dates, dated)]

\* C10: after k records the tracked date is the maximum normalized date of
\* the titled records among them, unset when there is none; once set it
\* stays set and never decreases, and the title then changes only in a step
\* in which the date increases; the step that sets the date sets the title
\* to that record's; the step that ends the scan changes neither.
C10_ScanInvariant ==
    [][ /\ TrackedDateIsMaximum
        /\ pc' = "done" => UNCHANGED <<latest_date, latest_title, k>>
        /\ latest_date # None =>
             /\ latest_date' # None
             /\ ~DateGT(latest_date[1], latest_date'[1])
             /\ latest_title' # latest_title
                   => DateGT(latest_date'[1], latest_date[1])
        /\ (pc = "scan" /\ latest_date = None /\ latest_date' # None)
             => latest_title' = all_posts[k + 1].title ]_vars

\* A placeholder title from an undated record was replaced by the title of
\* the first dated record, and a later undated record did not replace it.
C10_Witness ==
    /\ pc = "done"
    /\ Len(all_posts) = 3
    /\ Titled(3) = {1, 2, 3}
    /\ Dated(3) = {2}
    /\ all_posts[1].title # all_posts[2].title
    /\ all_posts[3].title # all_posts[2].title
    /\ latest_title = all_posts[2].title

====
